---- MODULE Spec2Model ----
(***************************************************************************)
(* The RAF virtual machine executable (src/impl/vm/executable.cc): the     *)
(* instruction codec (SerializeInstruction / DeserializeInstruction), the  *)
(* stream framing (Executable::Save / Executable::Load and their section   *)
(* helpers) and the inspection queries (GetFunctionArity,                  *)
(* GetFunctionParameterName).                                              *)
(*                                                                         *)
(* The byte stream is modelled at the granularity of the records the code  *)
(* writes and reads with dmlc::Stream (one token per Write / Read call).   *)
(* DCHECK is compiled out of release builds, so the build flavour is a     *)
(* state variable (dcheck).  A std::vector read or write past the end is   *)
(* undefined behaviour: it is modelled as a choice between a crash and a   *)
(* value drawn from Garbage.                                               *)
(***************************************************************************)
EXTENDS Integers, Sequences, FiniteSets, TLC

VARIABLES
  dcheck,   \* TRUE: debug build, DCHECK is evaluated; FALSE: release build
  cpc,      \* codec scenario: "off", "start", "encoded", "decoded"
  cin,      \* the instruction handed to SerializeInstruction (or NoInstr)
  crec,     \* the VMInstructionSerializer record (opcode, fields)
  cout,     \* what DeserializeInstruction produced
  exec,     \* the executable built by the compiler
  saved,    \* the byte buffers returned by the Save calls on exec, in order
  lsaved,   \* the byte buffers returned by the Save calls on the loaded executable
  wire,     \* the byte string handed to Executable::Load
  fromSave, \* TRUE when wire is the buffer of a Save of exec
  pc,       \* position of Executable::Load
  pos,      \* read position of the loader's stream (tokens consumed)
  ld,       \* the executable under construction by Load
  nfuncs,   \* LoadCodeSection: num_funcs
  fi,       \* LoadCodeSection: loop counter i
  stores,   \* LoadCodeSection: the positions written by functions[it->second] = vm_func
  err,      \* the error that ended Load
  q         \* the last inspection query and its result

vars == <<dcheck, cpc, cin, crec, cout, exec, saved, lsaved, wire, fromSave, pc, pos,
          ld, nfuncs, fi, stores, err, q>>

codecVars == <<cpc, cin, crec, cout>>
loadVars == <<wire, fromSave, pc, pos, ld, nfuncs, fi, stores, err>>

(***************************************************************************)
(* Bounds of the model.                                                    *)
(***************************************************************************)
\* longest variable-length tail (args, shape, fields, free_vars) of a legal instruction
MaxTail == 2
\* longest field list of an arbitrary (opcode, fields) record handed to the decoder
MaxFields == 9
\* largest function table of a compiler-built executable
MaxFuncs == 2
\* most Save calls on one executable
MaxSaves == 2

(***************************************************************************)
(* Small helpers.                                                          *)
(***************************************************************************)
Range(s) == {s[i] : i \in DOMAIN s}

SeqsUpTo(S, n) == UNION {[1..k -> S] : k \in 0..n}

\* all orders in which a hash map with key set S may be iterated
RECURSIVE Perms(_)
Perms(S) ==
  IF S = {} THEN {<<>>}
  ELSE UNION {{<<x>> \o p : p \in Perms(S \ {x})} : x \in S}

(***************************************************************************)
(* Instructions.                                                           *)
(***************************************************************************)
Opcodes ==
  {"Move", "Ret", "Fatal", "InvokePacked", "AllocTensor", "AllocTensorReg",
   "AllocStorage", "Free", "AllocTuple", "AllocClosure", "SetShape", "If",
   "InvokeFunc", "InvokeClosure", "LoadConst", "LoadConsti", "GetField", "Goto",
   "InvokeJit", "InferType", "CudaSetStream", "CudaAddEvent", "CudaWaitEvent",
   "CudaStreamBarrier"}

\* opcode values of a record that static_cast<Opcode> maps to no enumerator
UnknownOpcodes == {"24", "-1"}

NoInstr == [op |-> "none"]

\* register names and indices of legal instructions
Regs == {0, 1}
\* pc offsets, which may be negative
Offsets == {-3, 2}
\* DLDataType {code: u8, bits: u8, lanes: u16}
DTypes == {[code |-> 0, bits |-> 32, lanes |-> 1], [code |-> 2, bits |-> 16, lanes |-> 4]}
Tails == SeqsUpTo(Regs, MaxTail)

LegalInstrs ==
  {[op |-> "Move", from |-> a, dst |-> d] : a \in Regs, d \in Regs}
  \cup {[op |-> "Ret", result |-> a] : a \in Regs}
  \cup {[op |-> "Fatal"]}
  \cup {[op |-> "InvokePacked", packed_index |-> a, arity |-> Len(t), output_size |-> b,
         args |-> t] : a \in Regs, b \in Regs, t \in Tails}
  \cup {[op |-> "AllocTensor", storage |-> a, offset |-> b, dtype |-> dt, own |-> o,
         ndim |-> Len(t), dst |-> d, shape |-> t]
          : a \in Regs, b \in Regs, dt \in DTypes, o \in BOOLEAN, d \in Regs, t \in Tails}
  \cup {[op |-> "AllocTensorReg", storage |-> a, offset |-> b, shape_register |-> c,
         dtype |-> dt, dst |-> d, own |-> o]
          : a \in Regs, b \in Regs, c \in Regs, dt \in DTypes, d \in Regs, o \in BOOLEAN}
  \cup {[op |-> "AllocStorage", allocation_size |-> a, alignment |-> b, dtype_hint |-> dt,
         device_type |-> c, device_id |-> e, dst |-> d]
          : a \in Regs, b \in Regs, dt \in DTypes, c \in Regs, e \in Regs, d \in Regs}
  \cup {[op |-> "Free", memory |-> a] : a \in Regs}
  \cup {[op |-> "AllocTuple", num_fields |-> Len(t), dst |-> d, fields |-> t]
          : d \in Regs, t \in Tails}
  \cup {[op |-> "AllocClosure", func_index |-> a, num_free_vars |-> Len(t), dst |-> d,
         free_vars |-> t] : a \in Regs, d \in Regs, t \in Tails}
  \cup {[op |-> "SetShape", data |-> a, shape |-> b, dst |-> d]
          : a \in Regs, b \in Regs, d \in Regs}
  \cup {[op |-> "If", test |-> a, target |-> b, true_offset |-> x, false_offset |-> y]
          : a \in Regs, b \in Regs, x \in Offsets, y \in Offsets}
  \cup {[op |-> "InvokeFunc", func_index |-> a, num_args |-> Len(t), dst |-> d, args |-> t]
          : a \in Regs, d \in Regs, t \in Tails}
  \cup {[op |-> "InvokeClosure", closure |-> a, num_args |-> Len(t), dst |-> d, args |-> t]
          : a \in Regs, d \in Regs, t \in Tails}
  \cup {[op |-> "LoadConst", const_index |-> a, dst |-> d] : a \in Regs, d \in Regs}
  \cup {[op |-> "LoadConsti", val |-> a, dst |-> d] : a \in Offsets, d \in Regs}
  \cup {[op |-> "GetField", object |-> a, field_index |-> b, dst |-> d]
          : a \in Regs, b \in Regs, d \in Regs}
  \cup {[op |-> "Goto", pc_offset |-> x] : x \in Offsets}
  \cup {[op |-> "InvokeJit", op_reg |-> a, arity |-> Len(t), output_size |-> b, args |-> t]
          : a \in Regs, b \in Regs, t \in Tails}
  \cup {[op |-> "InferType", op_reg |-> a, num_args |-> Len(t), dst |-> d, args |-> t]
          : a \in Regs, d \in Regs, t \in Tails}
  \cup {[op |-> "CudaSetStream", device_id |-> a, stream_id |-> b] : a \in Regs, b \in Regs}
  \cup {[op |-> o, event_id |-> a, stream_id |-> b]
          : o \in {"CudaAddEvent", "CudaWaitEvent"}, a \in Regs, b \in Regs}
  \cup {[op |-> "CudaStreamBarrier"]}

\* instructions with longer tails: a packed call of arity 4, a tensor of 3 dimensions
ScenarioInstrs ==
  {[op |-> "InvokePacked", packed_index |-> 3, arity |-> 4, output_size |-> 2,
    args |-> <<0, 1, 2, 3>>],
   [op |-> "InvokeJit", op_reg |-> 3, arity |-> 4, output_size |-> 2, args |-> <<0, 1, 2, 3>>],
   [op |-> "AllocTensor", storage |-> 0, offset |-> 0,
    dtype |-> [code |-> 0, bits |-> 32, lanes |-> 1], own |-> TRUE, ndim |-> 3, dst |-> 4,
    shape |-> <<2, 3, 5>>]}

\* bool -> Index (fields.push_back(instr.alloc_tensor.own))
BoolToIndex(b) == IF b THEN 1 ELSE 0
\* Index -> bool (bool own = instr.fields[5])
IndexToBool(x) == x # 0
\* Index -> uint8_t / uint16_t (dtype.code = instr.fields[2])
ToU8(x) == x % 256
ToU16(x) == x % 65536

\* the three push_back calls of a DLDataType with the one for lanes left out
DTypeFields_NoLanes(dt) == <<dt.code, dt.bits>>

DTypeFields(dt) == <<dt.code, dt.bits, dt.lanes>>

VMInstructionSerializer(opcode, fields) == [opcode |-> opcode, fields |-> fields]

\* SerializeInstruction: the field list of each opcode, then the record
SerializeFields(instr) ==
  CASE instr.op = "Move" -> <<instr.from, instr.dst>>
    [] instr.op = "Ret" -> <<instr.result>>
    [] instr.op = "Fatal" -> <<>>
    [] instr.op = "InvokePacked" ->
         <<instr.packed_index, instr.arity, instr.output_size>>
           \o SubSeq(instr.args, 1, instr.arity)
    [] instr.op = "AllocTensor" ->
         <<instr.storage, instr.offset>> \o DTypeFields(instr.dtype)
           \o <<BoolToIndex(instr.own), instr.ndim, instr.dst>>
           \o SubSeq(instr.shape, 1, instr.ndim)
    [] instr.op = "AllocTensorReg" ->
         <<instr.storage, instr.offset, instr.shape_register>> \o DTypeFields(instr.dtype)
           \o <<instr.dst, BoolToIndex(instr.own)>>
    [] instr.op = "AllocStorage" ->
         <<instr.allocation_size, instr.alignment>> \o DTypeFields(instr.dtype_hint)
           \o <<instr.device_type, instr.device_id, instr.dst>>
    [] instr.op = "Free" -> <<instr.memory>>
    [] instr.op = "AllocTuple" ->
         <<instr.num_fields, instr.dst>> \o SubSeq(instr.fields, 1, instr.num_fields)
    [] instr.op = "AllocClosure" ->
         <<instr.func_index, instr.num_free_vars, instr.dst>>
           \o SubSeq(instr.free_vars, 1, instr.num_free_vars)
    [] instr.op = "SetShape" -> <<instr.data, instr.shape, instr.dst>>
    [] instr.op = "If" ->
         <<instr.test, instr.target, instr.true_offset, instr.false_offset>>
    [] instr.op = "InvokeFunc" ->
         <<instr.func_index, instr.num_args, instr.dst>>
           \o SubSeq(instr.args, 1, instr.num_args)
    [] instr.op = "InvokeClosure" ->
         <<instr.closure, instr.num_args, instr.dst>>
           \o SubSeq(instr.args, 1, instr.num_args)
    [] instr.op = "LoadConst" -> <<instr.const_index, instr.dst>>
    [] instr.op = "LoadConsti" -> <<instr.val, instr.dst>>
    [] instr.op = "GetField" -> <<instr.object, instr.field_index, instr.dst>>
    [] instr.op = "Goto" -> <<instr.pc_offset>>
    [] instr.op = "InvokeJit" ->
         <<instr.op_reg, instr.arity, instr.output_size>>
           \o SubSeq(instr.args, 1, instr.arity)
    [] instr.op = "InferType" ->
         <<instr.op_reg, instr.num_args, instr.dst>>
           \o SubSeq(instr.args, 1, instr.num_args)
    [] instr.op = "CudaSetStream" -> <<instr.device_id, instr.stream_id>>
    [] instr.op \in {"CudaAddEvent", "CudaWaitEvent"} -> <<instr.event_id, instr.stream_id>>
    [] instr.op = "CudaStreamBarrier" -> <<>>

SerializeInstruction(instr) == VMInstructionSerializer(instr.op, SerializeFields(instr))

(***************************************************************************)
(* DeserializeInstruction.  The result is the set of outcomes the build    *)
(* can produce: an instruction, a failed check (CHECK, an evaluated        *)
(* DCHECK, LOG(FATAL)), or a crash after a read past the end of fields.    *)
(***************************************************************************)
\* what a read past the end of a vector may yield
Garbage == {0, 7}

Decoded(instr) == [kind |-> "instr", instr |-> instr, what |-> "", opcode |-> ""]
CheckFailed(what) == [kind |-> "error", instr |-> NoInstr, what |-> what, opcode |-> ""]
\* the default case falling through to its return Instruction()
InvalidOpcode_Returned(opcode) ==
  [kind |-> "instr", instr |-> NoInstr, what |-> "", opcode |-> ""]

\* LOG(FATAL) << "Invalid opcode" << instr.opcode
InvalidOpcode(opcode) ==
  [kind |-> "error", instr |-> NoInstr, what |-> "Invalid opcode", opcode |-> opcode]
Crashed == [kind |-> "crash", instr |-> NoInstr, what |-> "", opcode |-> ""]

\* the values instr.fields[0 .. k-1] may read: the fields themselves where they
\* exist, anything past the end of the vector
Reads(fields, k) ==
  IF Len(fields) >= k THEN {SubSeq(fields, 1, k)}
  ELSE {fields \o g : g \in [1..(k - Len(fields)) -> Garbage]}

\* ExtractFields(instr_fields, start, cnt), after its CHECK_LE passed
ExtractFields(instr_fields, start, cnt) == [i \in 1..cnt |-> instr_fields[start + i]]

\* CHECK_LE(static_cast<size_t>(start + cnt), instr_fields.size())
ExtractFieldsCheck(instr_fields, start, cnt) ==
  start + cnt >= 0 /\ start + cnt <= Len(instr_fields)

\* a read past the end of fields may also end the process
CrashIfShort(fields, k) == IF Len(fields) < k THEN {Crashed} ELSE {}

DLDataType(code, bits, lanes) ==
  [code |-> ToU8(code), bits |-> ToU8(bits), lanes |-> ToU16(lanes)]

\* DCHECK_GE(size, k); DCHECK_EQ(size, k + static_cast<size_t>(fields[cntPos - 1]))
TailCountCheck(fields, k, cntPos) ==
  Len(fields) >= k /\ Len(fields) = k + fields[cntPos]

DCheckFailed == {CheckFailed("DCHECK")}

DeserializeInstruction(instr, dbg) ==
  LET f == instr.fields
      n == Len(instr.fields)
  IN
  CASE instr.opcode = "Move" ->
         IF dbg /\ n # 2 THEN DCheckFailed
         ELSE {Decoded([op |-> "Move", from |-> r[1], dst |-> r[2]]) : r \in Reads(f, 2)}
                \cup CrashIfShort(f, 2)
    [] instr.opcode = "Ret" ->
         IF dbg /\ n # 1 THEN DCheckFailed
         ELSE {Decoded([op |-> "Ret", result |-> r[1]]) : r \in Reads(f, 1)}
                \cup CrashIfShort(f, 1)
    [] instr.opcode = "Fatal" ->
         IF dbg /\ n # 0 THEN DCheckFailed
         ELSE {Decoded([op |-> "Fatal"])}
    [] instr.opcode = "InvokePacked" ->
         IF dbg /\ ~TailCountCheck(f, 3, 2) THEN DCheckFailed
         ELSE {IF ExtractFieldsCheck(f, 3, r[2])
                  THEN LET t == ExtractFields(f, 3, r[2])
                       IN Decoded([op |-> "InvokePacked", packed_index |-> r[1],
                                   arity |-> r[2], output_size |-> r[3], args |-> t])
                  ELSE CheckFailed("ExtractFields") : r \in Reads(f, 3)}
                \cup CrashIfShort(f, 3)
    [] instr.opcode = "AllocTensor" ->
         IF dbg /\ ~TailCountCheck(f, 8, 7) THEN DCheckFailed
         ELSE {IF ExtractFieldsCheck(f, 8, r[7])
                  THEN LET t == ExtractFields(f, 8, r[7])
                       IN Decoded([op |-> "AllocTensor", storage |-> r[1], offset |-> r[2],
                                   dtype |-> DLDataType(r[3], r[4], r[5]),
                                   own |-> IndexToBool(r[6]), ndim |-> Len(t),
                                   dst |-> r[8], shape |-> t])
                  ELSE CheckFailed("ExtractFields") : r \in Reads(f, 8)}
                \cup CrashIfShort(f, 8)
    [] instr.opcode = "AllocTensorReg" ->
         IF dbg /\ n # 7 THEN DCheckFailed
         ELSE {Decoded([op |-> "AllocTensorReg", storage |-> r[1], offset |-> r[2],
                         shape_register |-> r[3], dtype |-> DLDataType(r[4], r[5], r[6]),
                         dst |-> r[7], own |-> IndexToBool(r[8])]) : r \in Reads(f, 8)}
                \cup CrashIfShort(f, 8)
    [] instr.opcode = "AllocTuple" ->
         IF dbg /\ ~TailCountCheck(f, 2, 1) THEN DCheckFailed
         ELSE {IF ExtractFieldsCheck(f, 2, r[1])
                  THEN LET t == ExtractFields(f, 2, r[1])
                       IN Decoded([op |-> "AllocTuple", num_fields |-> Len(t), dst |-> r[2],
                                   fields |-> t])
                  ELSE CheckFailed("ExtractFields") : r \in Reads(f, 2)}
                \cup CrashIfShort(f, 2)
    [] instr.opcode = "AllocClosure" ->
         IF dbg /\ ~TailCountCheck(f, 3, 2) THEN DCheckFailed
         ELSE {IF ExtractFieldsCheck(f, 3, r[2])
                  THEN LET t == ExtractFields(f, 3, r[2])
                       IN Decoded([op |-> "AllocClosure", func_index |-> r[1],
                                   num_free_vars |-> Len(t), dst |-> r[3],
                                   free_vars |-> t])
                  ELSE CheckFailed("ExtractFields") : r \in Reads(f, 3)}
                \cup CrashIfShort(f, 3)
    [] instr.opcode = "AllocStorage" ->
         IF dbg /\ ~(n >= 6) THEN DCheckFailed
         ELSE {Decoded([op |-> "AllocStorage", allocation_size |-> r[1],
                         alignment |-> r[2], dtype_hint |-> DLDataType(r[3], r[4], r[5]),
                         device_type |-> r[6], device_id |-> r[7], dst |-> r[8]]) : r \in Reads(f, 8)}
                \cup CrashIfShort(f, 8)
    [] instr.opcode = "Free" ->
         IF dbg /\ n # 1 THEN DCheckFailed
         ELSE {Decoded([op |-> "Free", memory |-> r[1]]) : r \in Reads(f, 1)}
                \cup CrashIfShort(f, 1)
    [] instr.opcode = "SetShape" ->
         IF dbg /\ ~(n >= 3) THEN DCheckFailed
         ELSE {Decoded([op |-> "SetShape", data |-> r[1], shape |-> r[2], dst |-> r[3]]) : r \in Reads(f, 3)}
                \cup CrashIfShort(f, 3)
    [] instr.opcode = "If" ->
         IF dbg /\ n # 4 THEN DCheckFailed
         ELSE {Decoded([op |-> "If", test |-> r[1], target |-> r[2],
                         true_offset |-> r[3], false_offset |-> r[4]]) : r \in Reads(f, 4)}
                \cup CrashIfShort(f, 4)
    [] instr.opcode = "InvokeFunc" ->
         IF dbg /\ ~TailCountCheck(f, 3, 2) THEN DCheckFailed
         ELSE {IF ExtractFieldsCheck(f, 3, r[2])
                  THEN LET t == ExtractFields(f, 3, r[2])
                       IN Decoded([op |-> "InvokeFunc", func_index |-> r[1],
                                   num_args |-> Len(t), dst |-> r[3], args |-> t])
                  ELSE CheckFailed("ExtractFields") : r \in Reads(f, 3)}
                \cup CrashIfShort(f, 3)
    [] instr.opcode = "InvokeClosure" ->
         IF dbg /\ ~TailCountCheck(f, 3, 2) THEN DCheckFailed
         ELSE {IF ExtractFieldsCheck(f, 3, r[2])
                  THEN LET t == ExtractFields(f, 3, r[2])
                       IN Decoded([op |-> "InvokeClosure", closure |-> r[1],
                                   num_args |-> Len(t), dst |-> r[3], args |-> t])
                  ELSE CheckFailed("ExtractFields") : r \in Reads(f, 3)}
                \cup CrashIfShort(f, 3)
    [] instr.opcode = "LoadConst" ->
         IF dbg /\ n # 2 THEN DCheckFailed
         ELSE {Decoded([op |-> "LoadConst", const_index |-> r[1], dst |-> r[2]]) : r \in Reads(f, 2)}
                \cup CrashIfShort(f, 2)
    [] instr.opcode = "LoadConsti" ->
         IF dbg /\ n # 2 THEN DCheckFailed
         ELSE {Decoded([op |-> "LoadConsti", val |-> r[1], dst |-> r[2]]) : r \in Reads(f, 2)}
                \cup CrashIfShort(f, 2)
    [] instr.opcode = "GetField" ->
         IF dbg /\ n # 3 THEN DCheckFailed
         ELSE {Decoded([op |-> "GetField", object |-> r[1], field_index |-> r[2],
                         dst |-> r[3]]) : r \in Reads(f, 3)}
                \cup CrashIfShort(f, 3)
    [] instr.opcode = "Goto" ->
         IF dbg /\ n # 1 THEN DCheckFailed
         ELSE {Decoded([op |-> "Goto", pc_offset |-> r[1]]) : r \in Reads(f, 1)}
                \cup CrashIfShort(f, 1)
    [] instr.opcode = "InvokeJit" ->
         IF dbg /\ ~TailCountCheck(f, 3, 2) THEN DCheckFailed
         ELSE {IF ExtractFieldsCheck(f, 3, r[2])
                  THEN LET t == ExtractFields(f, 3, r[2])
                       IN Decoded([op |-> "InvokeJit", op_reg |-> r[1], arity |-> r[2],
                                   output_size |-> r[3], args |-> t])
                  ELSE CheckFailed("ExtractFields") : r \in Reads(f, 3)}
                \cup CrashIfShort(f, 3)
    [] instr.opcode = "InferType" ->
         IF dbg /\ ~TailCountCheck(f, 3, 2) THEN DCheckFailed
         ELSE {IF ExtractFieldsCheck(f, 3, r[2])
                  THEN LET t == ExtractFields(f, 3, r[2])
                       IN Decoded([op |-> "InferType", op_reg |-> r[1], num_args |-> Len(t),
                                   dst |-> r[3], args |-> t])
                  ELSE CheckFailed("ExtractFields") : r \in Reads(f, 3)}
                \cup CrashIfShort(f, 3)
    [] instr.opcode = "CudaSetStream" ->
         IF dbg /\ n # 2 THEN DCheckFailed
         ELSE {Decoded([op |-> "CudaSetStream", device_id |-> r[1], stream_id |-> r[2]]) : r \in Reads(f, 2)}
                \cup CrashIfShort(f, 2)
    [] instr.opcode = "CudaAddEvent" ->
         IF dbg /\ n # 2 THEN DCheckFailed
         ELSE {Decoded([op |-> "CudaAddEvent", event_id |-> r[1], stream_id |-> r[2]]) : r \in Reads(f, 2)}
                \cup CrashIfShort(f, 2)
    [] instr.opcode = "CudaWaitEvent" ->
         IF dbg /\ n # 2 THEN DCheckFailed
         ELSE {Decoded([op |-> "CudaWaitEvent", event_id |-> r[1], stream_id |-> r[2]]) : r \in Reads(f, 2)}
                \cup CrashIfShort(f, 2)
    [] instr.opcode = "CudaStreamBarrier" ->
         IF dbg /\ n # 0 THEN DCheckFailed
         ELSE {Decoded([op |-> "Fatal"])}
    [] OTHER -> {InvalidOpcode(instr.opcode)}

(***************************************************************************)
(* The codec scenario: an instruction is encoded and the record decoded,   *)
(* or an arbitrary record is handed to the decoder.                        *)
(***************************************************************************)
\* field values of an arbitrary record
FieldVals == {0, 1}

ArbitraryRecords ==
  {VMInstructionSerializer(o, f)
     : o \in Opcodes \cup UnknownOpcodes, f \in SeqsUpTo(FieldVals, MaxFields)}

NoRecord == VMInstructionSerializer("none", <<>>)
NoOutcome == [kind |-> "none", instr |-> NoInstr, what |-> "", opcode |-> ""]

(***************************************************************************)
(* The byte stream: one token per dmlc::Stream Write / Read call.          *)
(***************************************************************************)
Token(t, num, num2, str, strs, nums) ==
  [t |-> t, num |-> num, num2 |-> num2, str |-> str, strs |-> strs, nums |-> nums]

\* strm->Write(uint64_t)
U64(n) == Token("u64", n, 0, "", <<>>, <<>>)
\* strm->Write(std::string)
Str(x) == Token("str", 0, 0, x, <<>>, <<>>)
\* strm->Write(std::vector<std::string>)
StrList(l) == Token("strs", 0, 0, "", l, <<>>)
\* serialization::SerializeValue(strm, value): an opaque constant
Val(v) == Token("val", 0, 0, v, <<>>, <<>>)
\* VMFunctionSerializer(name, register_file_size, num_instructions, params).Save(strm)
FuncHeader(name, register_file_size, num_instructions, params) ==
  Token("func", register_file_size, num_instructions, name, params, <<>>)
\* VMInstructionSerializer(opcode, fields).Save(strm)
InstrRecord(r) == Token("instr", 0, 0, r.opcode, <<>>, r.fields)

\* the format's magic number: only equality with it is observed
kMetaVMBytecodeMagic == 1
TVM_VERSION == "TVM_VERSION"

(***************************************************************************)
(* The executable.                                                         *)
(***************************************************************************)
VMFunction(name, params, instructions, register_file_size) ==
  [name |-> name, params |-> params, instructions |-> instructions,
   register_file_size |-> register_file_size]

\* a value-initialised VMFunction, as functions.resize() creates
DefaultVMFunction == VMFunction("", <<>>, <<>>, 0)

\* the handle of an operator library; an executable is constructed without one
NoLib == "null"
Libs == {"lib"}

Executable(constants, global_map, primitive_map, functions, code) ==
  [constants |-> constants, global_map |-> global_map, primitive_map |-> primitive_map,
   functions |-> functions, code_ |-> code, lib |-> NoLib]

EmptyMap == [x \in {} |-> 0]

\* make_object<Executable>()
EmptyExecutable == Executable(<<>>, EmptyMap, EmptyMap, <<>>, <<>>)

(***************************************************************************)
(* Executable::Save.                                                       *)
(***************************************************************************)
SaveHeader == <<U64(kMetaVMBytecodeMagic), Str(TVM_VERSION)>>

\* SaveGlobalSection without its std::sort: the names stay in iteration order
SortByIndex_IterationOrder(map, names) == {names}

\* std::sort(globals.begin(), globals.end(), comp) with comp = a.second < b.second:
\* every arrangement of the names that comp accepts as sorted
SortByIndex(map, names) ==
  {p \in Perms(Range(names)) :
     \A i \in 1..Len(p), j \in 1..Len(p) : i < j => ~(map[p[j]] < map[p[i]])}

\* SaveGlobalSection, for the order in which the map is iterated
SaveGlobalSection(e, order) ==
  {<<StrList(glbs)>> : glbs \in SortByIndex(e.global_map, order)}

RECURSIVE ValTokens(_)
ValTokens(constants) ==
  IF constants = <<>> THEN <<>>
  ELSE <<Val(Head(constants))>> \o ValTokens(Tail(constants))

SaveConstantSection(e) == <<U64(Len(e.constants))>> \o ValTokens(e.constants)

\* primitive_names.resize(n): new slots hold empty strings
Resize(names, n) == [i \in 1..n |-> IF i <= Len(names) THEN names[i] ELSE ""]

\* the loop of SavePrimitiveOpNames with push_back in place of the indexed store
PrimitiveNames_PushBack(map, order, primitive_names) == primitive_names \o order

\* the loop of SavePrimitiveOpNames over the entries in iteration order
RECURSIVE PrimitiveNames(_, _, _)
PrimitiveNames(map, order, primitive_names) ==
  IF order = <<>> THEN primitive_names
  ELSE LET packed_index == map[Head(order)]
           sized == IF Len(primitive_names) <= packed_index
                      THEN Resize(primitive_names, packed_index + 1)
                      ELSE primitive_names
       IN PrimitiveNames(map, Tail(order),
                         [sized EXCEPT ![packed_index + 1] = Head(order)])

SavePrimitiveOpNames(e, order) == <<StrList(PrimitiveNames(e.primitive_map, order, <<>>))>>

RECURSIVE InstrTokens(_)
InstrTokens(instructions) ==
  IF instructions = <<>> THEN <<>>
  ELSE <<InstrRecord(SerializeInstruction(Head(instructions)))>>
         \o InstrTokens(Tail(instructions))

RECURSIVE FuncTokens(_)
FuncTokens(functions) ==
  IF functions = <<>> THEN <<>>
  ELSE LET func == Head(functions)
       IN <<FuncHeader(func.name, func.register_file_size, Len(func.instructions),
                       func.params)>>
            \o InstrTokens(func.instructions) \o FuncTokens(Tail(functions))

SaveCodeSection(e) == <<U64(Len(e.functions))>> \o FuncTokens(e.functions)

\* the buffers Save may produce when the maps are iterated in the given orders
SaveBytes(e, gorder, porder) ==
  {SaveHeader \o g \o SaveConstantSection(e) \o SavePrimitiveOpNames(e, porder)
     \o SaveCodeSection(e) : g \in SaveGlobalSection(e, gorder)}

(***************************************************************************)
(* Executable::Load.                                                       *)
(***************************************************************************)
NoError == [section |-> "", what |-> "", opcode |-> ""]
\* STREAM_CHECK(val, section)
StreamError(section) == [section |-> section, what |-> "Invalid VM file format", opcode |-> ""]
\* CHECK, an evaluated DCHECK, LOG(FATAL)
CheckError(what, opcode) == [section |-> "", what |-> what, opcode |-> opcode]

\* strm->Read of a record of kind t at position p succeeds
ReadOk(strm, p, t) == p < Len(strm) /\ strm[p + 1].t = t

\* LoadHeader without the comparison of the version string
LoadHeaderCheck_VersionUnchecked(strm) ==
  IF ~ReadOk(strm, 0, "u64") THEN "header"
  ELSE IF strm[1].num # kMetaVMBytecodeMagic THEN "header"
  ELSE IF ~ReadOk(strm, 1, "str") THEN "version"
  ELSE ""

\* LoadHeader: the section named by the STREAM_CHECK that fails, "" when none does
LoadHeaderCheck(strm) ==
  IF ~ReadOk(strm, 0, "u64") THEN "header"
  ELSE IF strm[1].num # kMetaVMBytecodeMagic THEN "header"
  ELSE IF ~ReadOk(strm, 1, "str") THEN "version"
  ELSE IF strm[2].str # TVM_VERSION THEN "version"
  ELSE ""

\* std::unordered_map::insert: an existing key keeps its value
MapInsert(map, k, v) ==
  IF k \in DOMAIN map THEN map
  ELSE [x \in DOMAIN map \cup {k} |-> IF x = k THEN v ELSE map[x]]

\* for (i = from; i < names.size(); i++) map.insert({names[i], i})
RECURSIVE InsertNames(_, _, _)
InsertNames(map, names, i) ==
  IF i >= Len(names) THEN map
  ELSE InsertNames(MapInsert(map, names[i + 1], i), names, i + 1)

\* the loop of LoadConstantSection: DeserializeValue fails on anything but a value
RECURSIVE LoadConstants(_, _, _)
LoadConstants(strm, p, size) ==
  IF size = 0 THEN [ok |-> TRUE, constants |-> <<>>, pos |-> p]
  ELSE IF ~ReadOk(strm, p, "val") THEN [ok |-> FALSE, constants |-> <<>>, pos |-> p]
  ELSE LET rest == LoadConstants(strm, p + 1, size - 1)
       IN [rest EXCEPT !.constants = <<strm[p + 1].str>> \o @]

\* the inner loop of LoadCodeSection: read and decode cnt instruction records
RECURSIVE LoadInstructions(_, _, _, _)
LoadInstructions(strm, p, cnt, dbg) ==
  IF cnt = 0 THEN {[kind |-> "ok", instructions |-> <<>>, pos |-> p, err |-> NoError]}
  ELSE IF ~ReadOk(strm, p, "instr")
    THEN {[kind |-> "error", instructions |-> <<>>, pos |-> p,
           err |-> StreamError("code/instruction")]}
  ELSE UNION
    {CASE o.kind = "instr" ->
            {IF r.kind = "ok" THEN [r EXCEPT !.instructions = <<o.instr>> \o @] ELSE r
               : r \in LoadInstructions(strm, p + 1, cnt - 1, dbg)}
       [] o.kind = "error" ->
            {[kind |-> "error", instructions |-> <<>>, pos |-> p + 1,
              err |-> CheckError(o.what, o.opcode)]}
       [] OTHER ->
            {[kind |-> "crash", instructions |-> <<>>, pos |-> p + 1, err |-> NoError]}
     : o \in DeserializeInstruction(
               VMInstructionSerializer(strm[p + 1].str, strm[p + 1].nums), dbg)}

\* CHECK_LE(it->second, this->global_map.size())
DirectoryCheck(map, index) == index <= Cardinality(DOMAIN map)

(***************************************************************************)
(* The inspection queries.  Each gives the set of outcomes of a call.      *)
(***************************************************************************)
GarbageStrs == {"", "<garbage>"}

Returned(rint, rstr) == [rint |-> rint, rstr |-> rstr, oob |-> FALSE, crash |-> FALSE]
\* the outcomes of a read past the end of a vector
OutOfBounds(rints, rstrs) ==
  {[rint |-> i, rstr |-> x, oob |-> TRUE, crash |-> FALSE] : i \in rints, x \in rstrs}
    \cup {[rint |-> 0, rstr |-> "", oob |-> TRUE, crash |-> TRUE]}

GetFunctionArity(e, func_name) ==
  IF func_name \notin DOMAIN e.global_map THEN {Returned(-1, "")}
  ELSE IF e.global_map[func_name] < Len(e.functions)
    THEN {Returned(Len(e.functions[e.global_map[func_name] + 1].params), "")}
  ELSE OutOfBounds(Garbage, {""})

GetFunctionParameterName(e, func_name, index) ==
  IF func_name \notin DOMAIN e.global_map THEN {Returned(0, "")}
  ELSE IF e.global_map[func_name] >= Len(e.functions) THEN OutOfBounds({0}, GarbageStrs)
  ELSE LET func == e.functions[e.global_map[func_name] + 1]
       IN IF index > Len(func.params) THEN {Returned(0, "")}
          ELSE IF index < Len(func.params) THEN {Returned(0, func.params[index + 1])}
          ELSE OutOfBounds({0}, GarbageStrs)

NoQuery ==
  [fn |-> "none", on |-> "", name |-> "", index |-> 0,
   rint |-> 0, rstr |-> "", oob |-> FALSE, crash |-> FALSE, text |-> <<>>,
   status |-> "returned"]

Query(fn, on, name, index, o) ==
  [fn |-> fn, on |-> on, name |-> name, index |-> index,
   rint |-> o.rint, rstr |-> o.rstr, oob |-> o.oob, crash |-> o.crash, text |-> <<>>,
   status |-> "returned"]

(***************************************************************************)
(* Executable::GetBytecode.  Text is a sequence of characters; the stream  *)
(* is the std::ostringstream of the function: its buffer and its put       *)
(* position.                                                               *)
(***************************************************************************)
NL == "\n"

\* the characters of the names that occur in the executables of the model
Chars(s) ==
  CASE s = "" -> <<>>
    [] s = "main" -> <<"m", "a", "i", "n">>
    [] OTHER -> <<s>>

RECURSIVE Digits(_)
\* operator<< of a non-negative integer
Digits(n) ==
  IF n < 10 THEN <<CHOOSE c \in {"0", "1", "2", "3", "4", "5", "6", "7", "8", "9"} :
                     c = ToString(n)>>
  ELSE Digits(n \div 10) \o Digits(n % 10)

\* operator<< of an Index
Num(n) == IF n < 0 THEN <<"-">> \o Digits(-n) ELSE Digits(n)

\* std::setw(2): the next item is padded on the left to two characters
SetW2(cs) == IF Len(cs) < 2 THEN [i \in 1..(2 - Len(cs)) |-> " "] \o cs ELSE cs

\* oss << serialized_instr.opcode: the decimal value of the enumerator, whose
\* digits are not observed; it is one item without a line break
OpcodeText(opcode) == <<opcode>>

\* oss << instr: the instruction in text format, with or without a final line break
InstrText(instr, brk) == IF brk THEN <<"<instr>", NL>> ELSE <<"<instr>">>

EmptyStream == [buf |-> <<>>, ppos |-> 0]

\* oss << cs: the characters go to the put position, over what is there
Put(os, cs) ==
  [buf |-> SubSeq(os.buf, 1, os.ppos) \o cs
             \o SubSeq(os.buf, os.ppos + Len(cs) + 1, Len(os.buf)),
   ppos |-> os.ppos + Len(cs)]

\* oss.seekp(off, std::ios_base::end); a position before the start fails the
\* stream and leaves the put position where it was
Seekp(os, off) ==
  IF Len(os.buf) + off >= 0 THEN [os EXCEPT !.ppos = Len(os.buf) + off] ELSE os

VMFunctionTag == <<"V", "M", " ", "F", "u", "n", "c", "t", "i", "o", "n", "[">>
HeaderSep == <<"]", ":", " ">>
RegFileSizeTag == <<"#", " ", "r", "e", "g", " ", "f", "i", "l", "e", " ", "s", "i", "z", "e", " ", "=", " ">>
InstructionCountTag == <<"#", " ", "i", "n", "s", "t", "r", "u", "c", "t", "i", "o", "n", " ", "c", "o", "u", "n", "t", " ", "=", " ">>
LegendLine == <<"o", "p", "c", "o", "d", "e", ",", " ", "f", "i", "e", "l", "d", "s", " ", "#", " ", "i", "n", "s", "t", "(", "t", "e", "x", "t", ")", ":">>

RECURSIVE ParamsText(_)
\* for (const auto& param : func.params) oss << param << ", "
ParamsText(params) ==
  IF params = <<>> THEN <<>>
  ELSE Chars(Head(params)) \o <<",", " ">> \o ParamsText(Tail(params))

RECURSIVE FieldsText(_)
\* for (auto it : serialized_instr.fields) oss << it << " "
FieldsText(fields) ==
  IF fields = <<>> THEN <<>>
  ELSE Num(Head(fields)) \o <<" ">> \o FieldsText(Tail(fields))

\* what one iteration of the instruction loop writes before its line-break test
InstructionText(idx, instr, brk) ==
  LET serialized_instr == SerializeInstruction(instr)
  IN SetW2(Digits(idx)) \o <<":", " ">> \o OpcodeText(serialized_instr.opcode) \o <<" ">>
       \o FieldsText(serialized_instr.fields) \o <<" ", " ", "#", " ">>
       \o InstrText(instr, brk)

\* the test oss.str().back() != '\n' dropped: a line break after every instruction
PutInstruction_AlwaysEndl(os, idx, instr, brk) ==
  Put(Put(os, InstructionText(idx, instr, brk)), <<NL>>)

\* one iteration of the instruction loop of GetBytecode
PutInstruction(os, idx, instr, brk) ==
  LET d == Put(os, InstructionText(idx, instr, brk))
  IN IF d.buf[Len(d.buf)] # NL THEN Put(d, <<NL>>) ELSE d

RECURSIVE PutInstructions(_, _, _, _)
PutInstructions(os, instructions, idx, brk) ==
  IF idx >= Len(instructions) THEN os
  ELSE PutInstructions(PutInstruction(os, idx, instructions[idx + 1], brk),
                       instructions, idx + 1, brk)

\* the header of a function block with the legend line left out
PutFunctionHeader_NoLegend(os, i, func) ==
  LET a == Put(os, VMFunctionTag \o Digits(i) \o HeaderSep \o Chars(func.name) \o <<"(">>
                     \o ParamsText(func.params))
      b == Seekp(a, -2)
  IN Put(b, <<")", NL>> \o RegFileSizeTag \o Num(func.register_file_size) \o <<NL>>
              \o InstructionCountTag \o Digits(Len(func.instructions)) \o <<NL>>)

\* the four lines that open a function block
PutFunctionHeader(os, i, func) ==
  LET a == Put(os, VMFunctionTag \o Digits(i) \o HeaderSep \o Chars(func.name) \o <<"(">>
                     \o ParamsText(func.params))
      b == Seekp(a, -2)
  IN Put(b, <<")", NL>> \o RegFileSizeTag \o Num(func.register_file_size) \o <<NL>>
              \o InstructionCountTag \o Digits(Len(func.instructions)) \o <<NL>>
              \o LegendLine \o <<NL>>)

RECURSIVE PutFunctions(_, _, _, _)
\* the loop of GetBytecode over functions
PutFunctions(os, functions, i, brk) ==
  IF i >= Len(functions) THEN os
  ELSE LET func == functions[i + 1]
           h == PutFunctionHeader(os, i, func)
           b == PutInstructions(h, func.instructions, 0, brk)
       IN PutFunctions(Put(b, <<NL>>), functions, i + 1, brk)

\* Executable::GetBytecode: oss.str(), for either behaviour of oss << instr
GetBytecode(e) == {PutFunctions(EmptyStream, e.functions, 0, brk).buf : brk \in BOOLEAN}

(***************************************************************************)
(* The registered query raf.vm.GetPrimitiveFields.  An outcome is a failed *)
(* CHECK, a name stored in *rv, or a return with *rv left unset.           *)
(***************************************************************************)
GetPrimitiveFields(e, idx) ==
  IF ~(idx >= 0) THEN {[status |-> "check failed", rstr |-> ""]}
  ELSE IF ~(idx < Cardinality(DOMAIN e.primitive_map))
    THEN {[status |-> "check failed", rstr |-> ""]}
  ELSE LET hits == {n \in DOMAIN e.primitive_map : e.primitive_map[n] = idx}
       IN IF hits = {} THEN {[status |-> "unset", rstr |-> ""]}
          ELSE {[status |-> "returned", rstr |-> n] : n \in hits}

\* the idx arguments of GetPrimitiveFields
PrimitiveIndices == -1..3

(***************************************************************************)
(* Inputs: the executables a compiler builds and the byte strings a host   *)
(* hands to Load.                                                          *)
(***************************************************************************)
FuncNames == {"main", "f", "g"}

\* function bodies: parameters, register file size, instructions
Bodies ==
  {[params |-> <<>>, register_file_size |-> 1,
    instructions |-> <<[op |-> "Ret", result |-> 0]>>],
   [params |-> <<"x">>, register_file_size |-> 2,
    instructions |-> <<[op |-> "Move", from |-> 0, dst |-> 1], [op |-> "Ret", result |-> 1]>>],
   [params |-> <<"x", "y">>, register_file_size |-> 3,
    instructions |-> <<[op |-> "If", test |-> 0, target |-> 1, true_offset |-> 2,
                        false_offset |-> -3],
                       [op |-> "Goto", pc_offset |-> -3], [op |-> "Ret", result |-> 0]>>],
   [params |-> <<"x">>, register_file_size |-> 1,
    instructions |-> <<[op |-> "CudaStreamBarrier"], [op |-> "Ret", result |-> 0]>>]}

\* function tables of at most MaxFuncs functions with distinct names
FunctionTables ==
  UNION {{[i \in 1..k |-> VMFunction(ns[i], bs[i].params, bs[i].instructions,
                                     bs[i].register_file_size)]
            : ns \in {n \in [1..k -> FuncNames] :
                        \A i \in 1..k, j \in 1..k : n[i] = n[j] => i = j},
              bs \in [1..k -> Bodies]}
         : k \in 0..MaxFuncs}

\* the global map of a well-formed executable: functions[global_map[name]].name = name
GlobalMapOf(functions) ==
  [n \in {functions[i].name : i \in DOMAIN functions} |->
     (CHOOSE i \in DOMAIN functions : functions[i].name = n) - 1]

PrimitiveMaps == {EmptyMap, ("add" :> 0), ("add" :> 1 @@ "mul" :> 0)}

ConstantPools == {<<>>, <<"c0", "c1">>}

WellFormedExecs ==
  {[Executable(c, GlobalMapOf(ft), pm, ft, <<>>) EXCEPT !.lib = l]
     : c \in ConstantPools, pm \in PrimitiveMaps, ft \in FunctionTables, l \in Libs}

\* a function as it stands in a stream: header, then its instruction records
FuncStream(name, params, register_file_size, records) ==
  <<FuncHeader(name, register_file_size, Len(records), params)>>
    \o [i \in 1..Len(records) |-> InstrRecord(records[i])]

MoveRecord == VMInstructionSerializer("Move", <<0, 1>>)

\* streams that differ from a valid one in the magic number or the version
HeaderStreams ==
  {<<U64(m), Str(v), StrList(<<"f">>), U64(1), Val("c0"), StrList(<<"add">>), U64(1)>>
     \o FuncStream("f", <<"x">>, 2, <<MoveRecord>>)
     : m \in {kMetaVMBytecodeMagic, kMetaVMBytecodeMagic + 1}, v \in {TVM_VERSION, "other"}}

RECURSIVE Flatten(_)
Flatten(ss) == IF ss = <<>> THEN <<>> ELSE Head(ss) \o Flatten(Tail(ss))

\* streams whose global section, primitive section and function headers are arbitrary
DirectoryStreams ==
  {SaveHeader \o <<StrList(gs), U64(0), StrList(ps), U64(Len(hs))>>
     \o Flatten([i \in 1..Len(hs) |-> FuncStream(hs[i], <<"x">>, 2, <<MoveRecord>>)])
     : gs \in SeqsUpTo({"f", "g"}, 2) \cup {<<"f", "f", "g">>},
       ps \in {<<>>, <<"add", "add", "mul">>},
       hs \in SeqsUpTo({"f", "g", "h"}, 2)}

\* instruction records no encoder writes
BadRecords ==
  {VMInstructionSerializer("24", <<>>), VMInstructionSerializer("24", <<0, 1>>),
   VMInstructionSerializer("-1", <<1>>),
   VMInstructionSerializer("AllocStorage", <<0, 0, 0, 0, 0, 0>>),
   VMInstructionSerializer("SetShape", <<0, 1, 1, 0>>),
   VMInstructionSerializer("Move", <<0>>)}

BadInstrStreams ==
  {SaveHeader \o <<StrList(<<"f">>), U64(0), StrList(<<>>), U64(1)>>
     \o FuncStream("f", <<"x">>, 2, rs)
     : rs \in {<<r>> : r \in BadRecords} \cup {<<MoveRecord, r>> : r \in BadRecords}}

\* every proper prefix of a valid stream
TruncatedStreams ==
  LET whole == <<U64(kMetaVMBytecodeMagic), Str(TVM_VERSION), StrList(<<"f">>), U64(1),
                 Val("c0"), StrList(<<"add">>), U64(1)>>
                 \o FuncStream("f", <<"x">>, 2, <<MoveRecord>>)
  IN {SubSeq(whole, 1, k) : k \in 0..(Len(whole) - 1)}

ForeignStreams == HeaderStreams \cup DirectoryStreams \cup BadInstrStreams \cup TruncatedStreams

QueryNames == FuncNames \cup {"<missing>"}
QueryIndices == 0..3

(***************************************************************************)
(* Initial states.                                                         *)
(***************************************************************************)
LoadIdle ==
  /\ pos = 0 /\ ld = EmptyExecutable /\ nfuncs = 0 /\ fi = 0
  /\ stores = <<>> /\ err = NoError /\ lsaved = <<>> /\ saved = <<>> /\ q = NoQuery

CodecOff == cpc = "off" /\ cin = NoInstr /\ crec = NoRecord /\ cout = NoOutcome

\* an instruction to encode, or an arbitrary record to decode
InitCodec ==
  /\ \/ cpc = "start" /\ cin \in LegalInstrs \cup ScenarioInstrs /\ crec = NoRecord
     \/ cpc = "encoded" /\ cin = NoInstr /\ crec \in ArbitraryRecords
  /\ cout = NoOutcome
  /\ exec = EmptyExecutable /\ wire = <<>> /\ fromSave = FALSE /\ pc = "off"
  /\ LoadIdle

\* a compiler-built executable, to be saved and loaded back
InitExec ==
  /\ CodecOff
  /\ exec \in WellFormedExecs /\ wire = <<>> /\ fromSave = TRUE /\ pc = "idle"
  /\ LoadIdle

\* a byte string of foreign origin, to be loaded
InitForeign ==
  /\ CodecOff
  /\ exec = EmptyExecutable /\ wire \in ForeignStreams /\ fromSave = FALSE /\ pc = "idle"
  /\ LoadIdle

Init == dcheck \in BOOLEAN /\ (InitCodec \/ InitExec \/ InitForeign)

(***************************************************************************)
(* Codec actions.                                                          *)
(***************************************************************************)
Encode ==
  /\ cpc = "start"
  /\ crec' = SerializeInstruction(cin)
  /\ cpc' = "encoded"
  /\ UNCHANGED <<dcheck, cin, cout, exec, saved, lsaved, q>>
  /\ UNCHANGED loadVars

Decode ==
  /\ cpc = "encoded"
  /\ cout' \in DeserializeInstruction(crec, dcheck)
  /\ cpc' = "decoded"
  /\ UNCHANGED <<dcheck, cin, crec, exec, saved, lsaved, q>>
  /\ UNCHANGED loadVars

(***************************************************************************)
(* Save.                                                                   *)
(***************************************************************************)
\* Save without code_.clear(): the stream appends to what the buffer holds
Save_Appending(e, gorder, porder) ==
  {[e EXCEPT !.code_ = @ \o b] : b \in SaveBytes(e, gorder, porder)}

\* Executable::Save on e: code_.clear(), the five sections, the buffer returned
Save(e, gorder, porder) ==
  LET cleared == [e EXCEPT !.code_ = <<>>]
  IN {[cleared EXCEPT !.code_ = @ \o b] : b \in SaveBytes(cleared, gorder, porder)}

SaveExec ==
  /\ pc = "idle" /\ fromSave /\ q = NoQuery
  /\ Len(saved) < MaxSaves
  /\ \E gorder \in Perms(DOMAIN exec.global_map), porder \in Perms(DOMAIN exec.primitive_map) :
       \E e \in Save(exec, gorder, porder) :
         /\ exec' = e
         /\ saved' = Append(saved, e.code_)
  /\ UNCHANGED <<dcheck, lsaved, q>>
  /\ UNCHANGED codecVars
  /\ UNCHANGED loadVars

SaveLoaded ==
  /\ pc = "done" /\ q = NoQuery
  /\ Len(lsaved) < MaxSaves
  /\ \E gorder \in Perms(DOMAIN ld.global_map), porder \in Perms(DOMAIN ld.primitive_map) :
       \E e \in Save(ld, gorder, porder) :
         /\ ld' = e
         /\ lsaved' = Append(lsaved, e.code_)
  /\ UNCHANGED <<dcheck, exec, saved, q, wire, fromSave, pc, pos, nfuncs, fi, stores, err>>
  /\ UNCHANGED codecVars

(***************************************************************************)
(* Load, section by section.                                               *)
(***************************************************************************)
frame == <<dcheck, exec, saved, lsaved, fromSave, q>>

Failed(e) ==
  /\ pc' = "failed"
  /\ err' = e

\* the byte strings a host can hand to Load
LoadInputs == IF fromSave THEN (IF saved = <<>> THEN {} ELSE {exec.code_}) ELSE {wire}

\* Load up to and including LoadHeader
LoadHeader ==
  /\ pc = "idle" /\ q = NoQuery
  /\ \E code \in LoadInputs, lib \in Libs :
       /\ wire' = code
       /\ ld' = [EmptyExecutable EXCEPT !.lib = lib, !.code_ = code]
       /\ IF LoadHeaderCheck(code) # ""
            THEN Failed(StreamError(LoadHeaderCheck(code))) /\ pos' = pos
            ELSE pc' = "global" /\ pos' = 2 /\ err' = err
  /\ UNCHANGED <<nfuncs, fi, stores>>
  /\ UNCHANGED frame
  /\ UNCHANGED codecVars

LoadGlobalSection ==
  /\ pc = "global"
  /\ IF ~ReadOk(wire, pos, "strs")
       THEN Failed(StreamError("global")) /\ UNCHANGED <<pos, ld>>
       ELSE /\ ld' = [ld EXCEPT !.global_map = InsertNames(@, wire[pos + 1].strs, 0)]
            /\ pos' = pos + 1
            /\ pc' = "constant"
            /\ err' = err
  /\ UNCHANGED <<wire, nfuncs, fi, stores>>
  /\ UNCHANGED frame
  /\ UNCHANGED codecVars

LoadConstantSection ==
  /\ pc = "constant"
  /\ IF ~ReadOk(wire, pos, "u64")
       THEN Failed(StreamError("constant")) /\ UNCHANGED <<pos, ld>>
       ELSE LET r == LoadConstants(wire, pos + 1, wire[pos + 1].num)
            IN IF ~r.ok
                 THEN Failed(CheckError("DeserializeValue", "")) /\ UNCHANGED <<pos, ld>>
                 ELSE /\ ld' = [ld EXCEPT !.constants = @ \o r.constants]
                      /\ pos' = r.pos
                      /\ pc' = "primitive"
                      /\ err' = err
  /\ UNCHANGED <<wire, nfuncs, fi, stores>>
  /\ UNCHANGED frame
  /\ UNCHANGED codecVars

LoadPrimitiveOpNames ==
  /\ pc = "primitive"
  /\ IF ~ReadOk(wire, pos, "strs")
       THEN Failed(StreamError("primitive name")) /\ UNCHANGED <<pos, ld>>
       ELSE /\ ld' = [ld EXCEPT !.primitive_map = InsertNames(@, wire[pos + 1].strs, 0)]
            /\ pos' = pos + 1
            /\ pc' = "code"
            /\ err' = err
  /\ UNCHANGED <<wire, nfuncs, fi, stores>>
  /\ UNCHANGED frame
  /\ UNCHANGED codecVars

\* LoadCodeSection up to its loop: the function count and functions.resize
LoadCodeSection ==
  /\ pc = "code"
  /\ IF ~ReadOk(wire, pos, "u64")
       THEN Failed(StreamError("code")) /\ UNCHANGED <<pos, ld, nfuncs>>
       ELSE /\ nfuncs' = wire[pos + 1].num
            /\ ld' = [ld EXCEPT !.functions = [i \in 1..wire[pos + 1].num |-> DefaultVMFunction]]
            /\ pos' = pos + 1
            /\ pc' = IF wire[pos + 1].num = 0 THEN "done" ELSE "func"
            /\ err' = err
  /\ UNCHANGED <<wire, fi, stores>>
  /\ UNCHANGED frame
  /\ UNCHANGED codecVars

\* one iteration of the loop of LoadCodeSection
LoadFunction ==
  /\ pc = "func" /\ fi < nfuncs
  /\ IF ~ReadOk(wire, pos, "func")
       THEN Failed(StreamError("code/function")) /\ UNCHANGED <<pos, ld, fi, stores>>
       ELSE
         LET loaded_func == wire[pos + 1]
         IN \E r \in LoadInstructions(wire, pos + 1, loaded_func.num2, dcheck) :
              CASE r.kind = "error" ->
                     Failed(r.err) /\ pos' = r.pos /\ UNCHANGED <<ld, fi, stores>>
                [] r.kind = "crash" ->
                     pc' = "crashed" /\ pos' = r.pos /\ UNCHANGED <<ld, fi, stores, err>>
                [] OTHER ->
                     LET vm_func == VMFunction(loaded_func.str, loaded_func.strs,
                                               r.instructions, loaded_func.num)
                     IN IF loaded_func.str \notin DOMAIN ld.global_map
                          THEN Failed(CheckError("CHECK(it != global_map.end())", ""))
                               /\ pos' = r.pos /\ UNCHANGED <<ld, fi, stores>>
                        ELSE IF ~DirectoryCheck(ld.global_map, ld.global_map[loaded_func.str])
                          THEN Failed(CheckError("CHECK_LE(it->second, global_map.size())", ""))
                               /\ pos' = r.pos /\ UNCHANGED <<ld, fi, stores>>
                        ELSE
                          LET index == ld.global_map[loaded_func.str]
                          IN /\ stores' = Append(stores, index)
                             /\ pos' = r.pos
                             /\ fi' = fi + 1
                             /\ err' = err
                             /\ IF index < Len(ld.functions)
                                  THEN /\ ld' = [ld EXCEPT !.functions[index + 1] = vm_func]
                                       /\ pc' = IF fi + 1 = nfuncs THEN "done" ELSE "func"
                                  \* a store past the end of the vector
                                  ELSE /\ ld' = ld
                                       /\ pc' \in {"crashed",
                                                   IF fi + 1 = nfuncs THEN "done" ELSE "func"}
  /\ UNCHANGED <<wire, nfuncs>>
  /\ UNCHANGED frame
  /\ UNCHANGED codecVars

(***************************************************************************)
(* Queries on the compiler-built executable and on a loaded one.           *)
(***************************************************************************)
QueryTargets ==
  (IF pc = "idle" /\ fromSave /\ saved = <<>> THEN {"exec"} ELSE {})
    \cup (IF pc = "done" /\ lsaved = <<>> THEN {"ld"} ELSE {})

Target(on) == IF on = "exec" THEN exec ELSE ld

CallGetFunctionArity ==
  /\ q = NoQuery
  /\ \E on \in QueryTargets, name \in QueryNames :
       \E o \in GetFunctionArity(Target(on), name) :
         q' = Query("GetFunctionArity", on, name, 0, o)
  /\ UNCHANGED <<dcheck, exec, saved, lsaved>>
  /\ UNCHANGED loadVars
  /\ UNCHANGED codecVars

CallGetFunctionParameterName ==
  /\ q = NoQuery
  /\ \E on \in QueryTargets, name \in QueryNames, index \in QueryIndices :
       \E o \in GetFunctionParameterName(Target(on), name, index) :
         q' = Query("GetFunctionParameterName", on, name, index, o)
  /\ UNCHANGED <<dcheck, exec, saved, lsaved>>
  /\ UNCHANGED loadVars
  /\ UNCHANGED codecVars

CallGetBytecode ==
  /\ q = NoQuery
  /\ \E on \in QueryTargets :
       \E t \in GetBytecode(Target(on)) :
         q' = [Query("GetBytecode", on, "", 0, Returned(0, "")) EXCEPT !.text = t]
  /\ UNCHANGED <<dcheck, exec, saved, lsaved>>
  /\ UNCHANGED loadVars
  /\ UNCHANGED codecVars

CallGetPrimitiveFields ==
  /\ q = NoQuery
  /\ \E on \in QueryTargets, idx \in PrimitiveIndices :
       \E o \in GetPrimitiveFields(Target(on), idx) :
         q' = [Query("GetPrimitiveFields", on, "", idx, Returned(0, o.rstr))
                 EXCEPT !.status = o.status]
  /\ UNCHANGED <<dcheck, exec, saved, lsaved>>
  /\ UNCHANGED loadVars
  /\ UNCHANGED codecVars

Next ==
  \/ Encode
  \/ Decode
  \/ SaveExec
  \/ SaveLoaded
  \/ LoadHeader
  \/ LoadGlobalSection
  \/ LoadConstantSection
  \/ LoadPrimitiveOpNames
  \/ LoadCodeSection
  \/ LoadFunction
  \/ CallGetFunctionArity
  \/ CallGetFunctionParameterName
  \/ CallGetBytecode
  \/ CallGetPrimitiveFields

Spec == Init /\ [][Next]_vars

(***************************************************************************)
(* Properties.                                                             *)
(***************************************************************************)
Injective(map) == \A a \in DOMAIN map, b \in DOMAIN map : map[a] = map[b] => a = b

\* the function table has an entry for the index the global map gives to name
HasFunction(e, name) ==
  name \in DOMAIN e.global_map /\ e.global_map[name] < Len(e.functions)

FunctionOf(e, name) == e.functions[e.global_map[name] + 1]

LoadedMapsEmpty ==
  /\ ld.global_map = EmptyMap /\ ld.primitive_map = EmptyMap
  /\ ld.constants = <<>> /\ ld.functions = <<>>

\* C1: for every well-formed executable E, Load(Save(E), E.lib) succeeds and yields
\* E' with the same global map, the same primitive map, the same number of
\* constants and, for every function f of E, E'.functions[E.global_map[f.name]]
\* equal to f in name, params, register_file_size and instruction list.
C1_ExecutableRoundTrip ==
  fromSave =>
    /\ pc \notin {"failed", "crashed"}
    /\ pc = "done" =>
         /\ ld.global_map = exec.global_map
         /\ ld.primitive_map = exec.primitive_map
         /\ Len(ld.constants) = Len(exec.constants)
         /\ \A i \in DOMAIN exec.functions :
              LET f == exec.functions[i]
              IN /\ HasFunction(ld, f.name)
                 /\ ld.functions[exec.global_map[f.name] + 1] = f

\* C2: for every instruction variant and every legal operand assignment,
\* DeserializeInstruction(SerializeInstruction(i)) is i: same opcode, same payload.
C2_InstructionRoundTrip ==
  (cpc = "decoded" /\ cin # NoInstr) => cout = Decoded(cin)

\* the global section of a saved buffer lists the names in ascending index order,
\* the primitive section holds every name at its packed index
SectionsOrdered(e, bytes) ==
  LET glbs == bytes[3].strs
      prims == bytes[4 + Len(e.constants) + 1].strs
  IN /\ Range(glbs) = DOMAIN e.global_map
     /\ \A i \in 1..Len(glbs), j \in 1..Len(glbs) :
          i < j => e.global_map[glbs[i]] < e.global_map[glbs[j]]
     /\ \A n \in DOMAIN e.primitive_map :
          e.primitive_map[n] < Len(prims) /\ prims[e.primitive_map[n] + 1] = n

\* C3: Save calls on the same executable return identical buffers, whatever the
\* order in which its maps are iterated and whatever the buffer left by the call
\* before; globals are in ascending index order, primitives at their packed index.
C3_SaveDeterministic ==
  /\ \A i \in DOMAIN saved : saved[i] = saved[1] /\ SectionsOrdered(exec, saved[i])
  /\ \A i \in DOMAIN lsaved : lsaved[i] = lsaved[1] /\ SectionsOrdered(ld, lsaved[i])

C3_Witness ==
  /\ Len(saved) = MaxSaves
  /\ Cardinality(DOMAIN exec.global_map) >= 2
  /\ Cardinality(DOMAIN exec.primitive_map) >= 2

WrongMagic(strm) ==
  Len(strm) >= 1 /\ strm[1].t = "u64" /\ strm[1].num # kMetaVMBytecodeMagic

WrongVersion(strm) ==
  /\ Len(strm) >= 2 /\ strm[1].t = "u64" /\ strm[1].num = kMetaVMBytecodeMagic
  /\ strm[2].t = "str" /\ strm[2].str # TVM_VERSION

\* C4: Load of a stream with a wrong magic fails with the "header" error, Load of a
\* stream with the right magic and a wrong version fails with the "version" error;
\* in both cases nothing of the later sections is parsed and no executable results.
C4_HeaderRejection ==
  pc \notin {"off", "idle"} =>
    /\ WrongMagic(wire) =>
         pc = "failed" /\ err.section = "header" /\ pos = 0 /\ LoadedMapsEmpty
    /\ WrongVersion(wire) =>
         pc = "failed" /\ err.section = "version" /\ pos = 0 /\ LoadedMapsEmpty

C4_Witness ==
  /\ pc = "failed" /\ err.section = "version" /\ WrongVersion(wire)
  /\ Len(wire) > 2

\* C5: a function header naming a function absent from the global section, or one
\* whose index is not a position of the function table, makes Load fail; no
\* function is stored outside the function table.
C5_DirectoryCheck ==
  /\ \A i \in DOMAIN stores : stores[i] < Len(ld.functions)
  /\ pc = "done" =>
       \A i \in 1..pos :
         wire[i].t = "func" =>
           /\ wire[i].str \in DOMAIN ld.global_map
           /\ ld.global_map[wire[i].str] < nfuncs

\* the field count the format fixes for the record's opcode
FieldCountOk(instr) ==
  LET n == Len(instr.fields)
      f == instr.fields
  IN CASE instr.opcode \in {"Move", "LoadConst", "LoadConsti", "CudaSetStream",
                            "CudaAddEvent", "CudaWaitEvent"} -> n = 2
       [] instr.opcode \in {"Ret", "Free", "Goto"} -> n = 1
       [] instr.opcode \in {"Fatal", "CudaStreamBarrier"} -> n = 0
       [] instr.opcode \in {"InvokePacked", "InvokeJit", "InvokeFunc", "InvokeClosure",
                            "InferType", "AllocClosure"} -> n >= 3 /\ n = 3 + f[2]
       [] instr.opcode = "AllocTensor" -> n >= 8 /\ n = 8 + f[7]
       [] instr.opcode = "AllocTensorReg" -> n = 8
       [] instr.opcode = "AllocStorage" -> n = 9
       [] instr.opcode = "AllocTuple" -> n >= 2 /\ n = 2 + f[1]
       [] instr.opcode \in {"SetShape", "GetField"} -> n = 3
       [] instr.opcode = "If" -> n = 4
       [] OTHER -> FALSE

\* C6: DeserializeInstruction fails on every record whose number of fields differs
\* from the count fixed for its opcode.
C6_FieldCountEnforced ==
  (cpc = "decoded" /\ crec.opcode \in Opcodes /\ ~FieldCountOk(crec)) => cout.kind = "error"

\* the instruction records of unknown opcode in a stream
UnknownAt(strm) == {i \in DOMAIN strm : strm[i].t = "instr" /\ strm[i].str \notin Opcodes}

\* C7: DeserializeInstruction of a record of unknown opcode fails with an error
\* carrying that opcode, for any field list, and a Load that reads such a record
\* fails as a whole.
C7_UnknownOpcodeFails ==
  /\ (cpc = "decoded" /\ crec.opcode \notin Opcodes) =>
       cout.kind = "error" /\ cout.what = "Invalid opcode" /\ cout.opcode = crec.opcode
  /\ \A i \in UnknownAt(wire) :
       pos >= i => pc = "failed" /\ err.what = "Invalid opcode" /\ err.opcode = wire[i].str

C7_Witness ==
  /\ pc = "failed" /\ UnknownAt(wire) # {} /\ err.opcode = "24"
  /\ \E i \in UnknownAt(wire) : i > 1 /\ wire[i - 1].t = "instr" /\ pos = i

\* C8: GetFunctionParameterName(name, i) returns the i-th parameter name when
\* 0 <= i < |params|, the empty string when the name is unknown or i >= |params|,
\* and reads no position outside the parameter list.
C8_ParameterNameBounds ==
  (q.fn = "GetFunctionParameterName"
     /\ (q.name \in DOMAIN Target(q.on).global_map => HasFunction(Target(q.on), q.name))) =>
    /\ ~q.oob /\ ~q.crash
    /\ q.rstr = IF q.name \in DOMAIN Target(q.on).global_map
                     /\ q.index < Len(FunctionOf(Target(q.on), q.name).params)
                  THEN FunctionOf(Target(q.on), q.name).params[q.index + 1]
                  ELSE ""

\* C9: GetFunctionArity(name) returns the number of parameters of
\* functions[global_map[name]] when name is in the global map and -1 when it is
\* not (reading no position outside the function table).
C9_GetFunctionArity ==
  q.fn = "GetFunctionArity" =>
    /\ ~q.oob /\ ~q.crash
    /\ IF q.name \in DOMAIN Target(q.on).global_map
         THEN /\ HasFunction(Target(q.on), q.name)
              /\ q.rint = Len(FunctionOf(Target(q.on), q.name).params)
         ELSE q.rint = -1

\* C10: after every successful Load the global map is injective, its values are
\* exactly [0, |functions|), and functions[global_map[name]].name = name.
C10_GlobalMapInvariant ==
  pc = "done" =>
    /\ Injective(ld.global_map)
    /\ {ld.global_map[n] : n \in DOMAIN ld.global_map} = 0..(Len(ld.functions) - 1)
    /\ \A n \in DOMAIN ld.global_map : FunctionOf(ld, n).name = n

\* bytes is a buffer a Save call on e can return, whatever its code buffer held
\* before
BytesOf(bytes, e) ==
  LET constants == SaveConstantSection(e)
      code == SaveCodeSection(e)
  IN \E g \in Perms(DOMAIN e.global_map), p \in Perms(DOMAIN e.primitive_map) :
       \E globals \in SaveGlobalSection(e, g) :
         bytes = SaveHeader \o globals \o constants \o SavePrimitiveOpNames(e, p) \o code

\* e2 is e1 except, possibly, for the code buffer
SameButCode(e1, e2) ==
  /\ e2.constants = e1.constants /\ e2.global_map = e1.global_map
  /\ e2.primitive_map = e1.primitive_map /\ e2.functions = e1.functions
  /\ e2.lib = e1.lib

\* C11: every Save call leaves the constant pool, the global map, the primitive
\* map, the function table and the library handle as they were, and the code
\* buffer after the call holds exactly the bytes of that call.
C11_SaveFrame ==
  [][/\ saved' # saved =>
         /\ SameButCode(exec, exec') /\ ld' = ld
         /\ BytesOf(exec'.code_, exec) /\ saved' = Append(saved, exec'.code_)
     /\ lsaved' # lsaved =>
         /\ SameButCode(ld, ld') /\ exec' = exec
         /\ BytesOf(ld'.code_, ld) /\ lsaved' = Append(lsaved, ld'.code_)]_vars

\* a second Save call on the compiler-built executable and a Save call on a
\* loaded one, whose buffer held the loaded bytes
C11_Witness ==
  \/ Len(saved) = 2 /\ exec.code_ = saved[2] /\ exec.functions # <<>>
  \/ Len(lsaved) = 1 /\ ld.code_ = lsaved[1] /\ wire # <<>> /\ ld.functions # <<>>

\* the positions of sep in seq, and the k-th of them
SepPos(seq, sep) == {i \in DOMAIN seq : seq[i] = sep}
Nth(S, k) == CHOOSE x \in S : Cardinality({y \in S : y < x}) = k - 1

\* the pieces of seq that end with sep (sep left out)
SplitAt(seq, sep) ==
  LET P == SepPos(seq, sep)
  IN [k \in 1..Cardinality(P) |->
        SubSeq(seq, (IF k = 1 THEN 0 ELSE Nth(P, k - 1)) + 1, Nth(P, k) - 1)]

EndsWith(seq, sep) == seq = <<>> \/ seq[Len(seq)] = sep

\* the lines of a text, and the blocks of non-blank lines that blank lines close
LinesOf(text) == SplitAt(text, NL)
BlocksOf(text) == SplitAt(LinesOf(text), <<>>)

IsPrefix(a, b) == Len(a) <= Len(b) /\ SubSeq(b, 1, Len(a)) = a

\* text has one block per function, in table order, each closed by a blank line;
\* block i has |instructions| + h lines, the last |instructions| of them carrying
\* the indices 0, 1, ... in order
ShapeOk(text, functions, h) ==
  LET blocks == BlocksOf(text)
  IN /\ EndsWith(text, NL) /\ EndsWith(LinesOf(text), <<>>)
     /\ Len(blocks) = Len(functions)
     /\ \A i \in DOMAIN functions :
          LET n == Len(functions[i].instructions)
              b == blocks[i]
          IN /\ Len(b) = n + h
             /\ IsPrefix(VMFunctionTag \o Digits(i - 1) \o <<"]">>, b[1])
             /\ \A idx \in 0..(n - 1) :
                  IsPrefix(SetW2(Digits(idx)) \o <<":", " ">>, b[Len(b) - n + idx + 1])

\* C12 as stated: GetBytecode() emits |functions| blocks in table order, each of
\* exactly |instructions| + 3 non-blank lines followed by one blank line, the
\* instruction lines carrying the indices 0 .. |instructions| - 1 in order.
C12_DisassemblyShape ==
  q.fn = "GetBytecode" => ShapeOk(q.text, Target(q.on).functions, 3)

\* C12 amended: GetBytecode() emits |functions| blocks in table order, each of
\* exactly |instructions| + 4 non-blank lines (the header line, the register file
\* size, the instruction count and the legend, then one line per instruction)
\* followed by one blank line, the instruction lines carrying the indices
\* 0 .. |instructions| - 1 in order.
C12_DisassemblyShape_Amended ==
  q.fn = "GetBytecode" => ShapeOk(q.text, Target(q.on).functions, 4)

\* the disassembly of two functions, one of them with three instructions
C12_Witness ==
  /\ q.fn = "GetBytecode" /\ Len(Target(q.on).functions) = 2
  /\ Len(Target(q.on).functions[2].instructions) = 3
  /\ Len(BlocksOf(q.text)) = 2 /\ Len(BlocksOf(q.text)[2]) = 7

RECURSIVE Join(_, _)
\* the items separated by sep, none after the last
Join(items, sep) ==
  IF items = <<>> THEN <<>>
  ELSE IF Len(items) = 1 THEN Chars(items[1])
  ELSE Chars(Head(items)) \o sep \o Join(Tail(items), sep)

\* C18: the first line of the block of function i with name n and parameters
\* p1..pk is exactly "VM Function[i]: n(p1, p2, ..., pk)", and "VM Function[i]: n()"
\* when the function has no parameters.
C18_FunctionHeaderLine ==
  q.fn = "GetBytecode" =>
    \A i \in DOMAIN Target(q.on).functions :
      LET func == Target(q.on).functions[i]
      IN /\ Len(BlocksOf(q.text)) >= i
         /\ BlocksOf(q.text)[i] # <<>>
         /\ BlocksOf(q.text)[i][1] =
              VMFunctionTag \o Digits(i - 1) \o HeaderSep \o Chars(func.name)
                \o <<"(">> \o Join(func.params, <<",", " ">>) \o <<")">>

\* C13: for 0 <= idx < |primitive_map| GetPrimitiveFields returns a name n with
\* primitive_map[n] = idx (it never completes without a name), and for idx < 0 or
\* idx >= |primitive_map| it is a checked failure.
C13_GetPrimitiveFields ==
  q.fn = "GetPrimitiveFields" =>
    LET map == Target(q.on).primitive_map
    IN IF 0 <= q.index /\ q.index < Cardinality(DOMAIN map)
         THEN q.status = "returned" /\ q.rstr \in DOMAIN map /\ map[q.rstr] = q.index
         ELSE q.status = "check failed"

\* the list mirrors the map: as long as the largest index plus one, each name at
\* its index, the empty string where no name maps
LayoutOf(list, map) ==
  /\ Len(list) = Cardinality(UNION {0..map[n] : n \in DOMAIN map})
  /\ \A n \in DOMAIN map : map[n] < Len(list) /\ list[map[n] + 1] = n
  /\ \A i \in DOMAIN list : (\A n \in DOMAIN map : map[n] # i - 1) => list[i] = ""

\* the record of the primitive section in a buffer saved from e
PrimitiveSection(bytes, e) == bytes[4 + Len(e.constants) + 1]

NoGaps(map) == {map[n] : n \in DOMAIN map} = 0..(Cardinality(DOMAIN map) - 1)

\* C14: SavePrimitiveOpNames writes a list of length (max packed index + 1), empty
\* for the empty map, holding every name at its index and the empty string at the
\* positions no name maps to; for a map without gaps LoadPrimitiveOpNames rebuilds
\* the same map from that list.
C14_PrimitiveSectionLayout ==
  /\ \A k \in DOMAIN saved :
       /\ PrimitiveSection(saved[k], exec).t = "strs"
       /\ LayoutOf(PrimitiveSection(saved[k], exec).strs, exec.primitive_map)
  /\ \A k \in DOMAIN lsaved :
       /\ PrimitiveSection(lsaved[k], ld).t = "strs"
       /\ LayoutOf(PrimitiveSection(lsaved[k], ld).strs, ld.primitive_map)
  /\ (fromSave /\ pc \in {"code", "func", "done"} /\ NoGaps(exec.primitive_map)) =>
       ld.primitive_map = exec.primitive_map

\* a list with an empty string at a gap has been written, or a map of two names
\* has been written and rebuilt
C14_Witness ==
  \/ /\ lsaved # <<>> /\ ~NoGaps(ld.primitive_map)
     /\ \E i \in DOMAIN PrimitiveSection(lsaved[1], ld).strs :
          PrimitiveSection(lsaved[1], ld).strs[i] = ""
  \/ /\ fromSave /\ pc = "done" /\ Cardinality(DOMAIN exec.primitive_map) = 2
     /\ ld.primitive_map = exec.primitive_map

\* C15: SerializeInstruction of an AllocTensorReg writes the 8 fields {storage,
\* offset, shape_register, dtype.code, dtype.bits, dtype.lanes, dst, own}, and
\* DeserializeInstruction accepts that record and reads own from the eighth field.
C15_AllocTensorRegAgreement ==
  (cpc \in {"encoded", "decoded"} /\ cin # NoInstr /\ cin.op = "AllocTensorReg") =>
    /\ crec.fields = <<cin.storage, cin.offset, cin.shape_register, cin.dtype.code,
                       cin.dtype.bits, cin.dtype.lanes, cin.dst, BoolToIndex(cin.own)>>
    /\ cpc = "decoded" =>
         cout.kind = "instr" /\ cout.instr.own = IndexToBool(crec.fields[8])

\* C16: DeserializeInstruction of the record (CudaStreamBarrier, no fields) returns
\* an instruction of opcode CudaStreamBarrier, and the opcode of every instruction
\* survives encode followed by decode.
C16_CudaStreamBarrierDecode ==
  /\ (cpc = "decoded" /\ crec = VMInstructionSerializer("CudaStreamBarrier", <<>>)) =>
       cout.kind = "instr" /\ cout.instr.op = "CudaStreamBarrier"
  /\ (cpc = "decoded" /\ cin # NoInstr /\ cout.kind = "instr") => cout.instr.op = cin.op

\* the count of the field-count table for the record's opcode, with the given
\* count for AllocStorage
TableCountOk(rec, storage_count) ==
  IF rec.opcode = "AllocStorage" THEN Len(rec.fields) = storage_count
  ELSE FieldCountOk(rec)

\* the variable-length tail of an instruction: the number of fixed fields, the
\* position of the count field, the tail
TailSpec(instr) ==
  CASE instr.op \in {"InvokePacked", "InvokeJit", "InvokeFunc", "InvokeClosure", "InferType"} ->
         [k |-> 3, c |-> 2, tail |-> instr.args]
    [] instr.op = "AllocClosure" -> [k |-> 3, c |-> 2, tail |-> instr.free_vars]
    [] instr.op = "AllocTensor" -> [k |-> 8, c |-> 7, tail |-> instr.shape]
    [] instr.op = "AllocTuple" -> [k |-> 2, c |-> 1, tail |-> instr.fields]
    [] OTHER -> [k |-> 0, c |-> 0, tail |-> <<>>]

\* fixed fields first, the tail last, the count field equal to the tail's length
TailLast(instr, rec) ==
  LET ts == TailSpec(instr)
  IN ts.c > 0 =>
       /\ Len(rec.fields) = ts.k + Len(ts.tail)
       /\ rec.fields[ts.c] = Len(ts.tail)
       /\ SubSeq(rec.fields, ts.k + 1, Len(rec.fields)) = ts.tail

Encoded == cpc \in {"encoded", "decoded"} /\ cin # NoInstr

\* C17 as stated: SerializeInstruction(i) has the number of fields of the
\* field-count table (AllocStorage 9, AllocTensor 8 + ndim, InvokePacked and
\* InvokeJit 3 + arity, AllocTuple 2 + num_fields, ...), fixed fields first and the
\* tail last, the count field equal to the length of the tail.
C17_EncoderFieldCounts ==
  Encoded => TableCountOk(crec, 9) /\ TailLast(cin, crec)

\* C17 amended: as stated, except that AllocStorage encodes to 8 fields
\* (allocation_size, alignment, dtype.code, dtype.bits, dtype.lanes, device_type,
\* device_id, dst).
C17_EncoderFieldCounts_Amended ==
  Encoded => TableCountOk(crec, 8) /\ TailLast(cin, crec)

\* the tensor of three dimensions has been encoded to 11 fields
C17_Witness ==
  /\ Encoded /\ cin.op = "AllocTensor" /\ cin.shape = <<2, 3, 5>>
  /\ Len(crec.fields) = 11 /\ crec.fields[7] = 3

====
